---- MODULE Spec2Model ----
(***************************************************************************)
(* The three Streamlit programs of the repository as one state machine:    *)
(*   "stm"      src/Subject-Time-Manger.py  (Subject Time Manager)         *)
(*   "outreach" src/Cold_Email.py           (Cold Email Generator)         *)
(*   "lead"     src/ColdEmail.py            (Email Coder)                  *)
(* A Streamlit script runs top to bottom once per user interaction; one    *)
(* action of the model is one such run, started by one widget event.       *)
(***************************************************************************)
EXTENDS Integers, Sequences, FiniteSets, TLC

VARIABLES
    app,            \* which of the three programs this server process runs
    environ,        \* os.environ of the process: the two API key variables
    session_state,  \* st.session_state of the Subject Time Manager session
    outreach_state, \* st.session_state of the Cold Email Generator session
    lead_state,     \* st.session_state of the Email Coder session
    io,             \* what the last script run did towards the outside:
                    \* the event, what it showed, the executor calls it made
    peer            \* a second browser session of an email program, served by
                    \* the same process: its key field, its session state and
                    \* the executor call of its last run

vars == <<app, environ, session_state, outreach_state, lead_state, io, peer>>

(***************************************************************************)
(* Bounds of the model.                                                    *)
(***************************************************************************)
MaxSubjects == 2    \* subjects stored in the session, all namespaces together
MaxChat == 2        \* entries of one chat transcript
MaxHistory == 2     \* entries of the test history
MaxClicks == 1      \* presses of the Email Coder's "Click me" button
MaxTranscript == 4  \* entries of one chat transcript where the chat pages are studied

(***************************************************************************)
(* Python values.  A value stored in st.session_state carries its Python   *)
(* type, so that None, [] and {} are three different values.               *)
(***************************************************************************)
PyNone == [t |-> "NoneType", v |-> <<>>]
PyList(s) == [t |-> "list", v |-> s]
PyDict(f) == [t |-> "dict", v |-> f]
PyStr(x) == [t |-> "str", v |-> x]
EmptyDict == <<>>
\* Python truthiness of a stored value: None, "", [] and {} are falsy.
Truthy(x) ==
    CASE x.t = "NoneType" -> FALSE
      [] x.t = "str" -> x.v # ""
      [] x.t = "list" -> Len(x.v) > 0
      [] x.t = "dict" -> DOMAIN x.v # {}

Put(f, k, val) == [x \in DOMAIN f \cup {k} |-> IF x = k THEN val ELSE f[x]]
Drop(f, k) == [x \in DOMAIN f \ {k} |-> f[x]]
RemoveAt(s, i) == [j \in 1..(Len(s) - 1) |-> IF j < i THEN s[j] ELSE s[j + 1]]

(***************************************************************************)
(* Credentials.  The text typed into the API-key field; " " stands for a   *)
(* key made of whitespace only, "" for no key.                             *)
(***************************************************************************)
KeyInputs == {"", " ", "k1", "k2"}
NoHash == "None"

\* str.strip() on the texts of the model
strip(x) ==
    CASE x = " " -> ""
      [] x = " t2 " -> "t2"
      [] OTHER -> x

\* hashlib.md5(api_key.encode()).hexdigest()[:16]; "d0", "d1", "d2" stand for
\* the 16-digit digests of " ", "k1" and "k2".
get_api_key_hash(api_key) ==
    IF api_key = "" THEN NoHash
    ELSE CASE api_key = " " -> "d0"
           [] api_key = "k1" -> "d1"
           [] api_key = "k2" -> "d2"

\* f"user_{api_key_hash}_"
UserPrefixOf(h) ==
    CASE h = "d0" -> "user_d0_"
      [] h = "d1" -> "user_d1_"
      [] h = "d2" -> "user_d2_"

Prefixes == {""} \cup {UserPrefixOf(get_api_key_hash(k)) : k \in KeyInputs \ {""}}

(***************************************************************************)
(* Session keystore (src/Subject-Time-Manger.py, lines 22-92).             *)
(* session_state is [api_key, current_api_key_hash, data]; data maps the   *)
(* key f"{prefix}{base_key}", written <<prefix, base_key>>, to its value.  *)
(***************************************************************************)
BaseKeys == {"subjects", "syllabus", "study_routine", "test_history",
             "current_test", "test_answers", "homework_chat", "definitions_chat"}

get_user_prefix_shared(s) == ""

get_user_prefix(s) ==
    IF s.current_api_key_hash = NoHash \/ s.current_api_key_hash = ""
    THEN ""
    ELSE UserPrefixOf(s.current_api_key_hash)

get_user_key(s, base_key) == <<get_user_prefix(s), base_key>>

\* line 51: the default get_user_data computes when it is given None
TypeDefault(base_key) ==
    IF base_key \in {"subjects", "test_history", "homework_chat", "definitions_chat"}
    THEN PyList(<<>>)
    ELSE IF base_key \in {"syllabus", "test_answers"}
         THEN PyDict(EmptyDict)
         ELSE PyNone

\* lines 48-54 with the default stored on every call
get_user_data_reset(s, base_key, default) ==
    [s EXCEPT !.data = Put(s.data, get_user_key(s, base_key),
                           IF default = PyNone THEN TypeDefault(base_key) ELSE default)]

\* get_user_data has an effect (it stores the default of a missing key) and
\* a result; the two are separate operators here.
get_user_data_effect(s, base_key, default) ==
    LET key == get_user_key(s, base_key)
        dflt == IF default = PyNone THEN TypeDefault(base_key) ELSE default
    IN IF key \in DOMAIN s.data
       THEN s
       ELSE [s EXCEPT !.data = Put(s.data, key, dflt)]

get_user_data(s, base_key) ==
    get_user_data_effect(s, base_key, PyNone).data[get_user_key(s, base_key)]

set_user_data(s, base_key, value) ==
    [s EXCEPT !.data = Put(s.data, get_user_key(s, base_key), value)]

\* lines 62-63
EnsureKeys == <<"subjects", "syllabus", "study_routine", "test_history",
                "current_test", "test_answers", "homework_chat", "definitions_chat">>
EnsureDefaults == <<PyList(<<>>), PyDict(EmptyDict), PyNone, PyList(<<>>),
                    PyNone, PyDict(EmptyDict), PyList(<<>>), PyList(<<>>)>>

RECURSIVE EnsureFrom(_, _)
EnsureFrom(s, i) ==
    IF i > Len(EnsureKeys) THEN s
    ELSE EnsureFrom(get_user_data_effect(s, EnsureKeys[i], EnsureDefaults[i]), i + 1)

\* lines 61-65 with every key assigned its default, stored or not
ensure_user_data_overwrite(s) ==
    [s EXCEPT !.data =
        [k \in DOMAIN s.data \cup {get_user_key(s, b) : b \in BaseKeys} |->
            IF k[1] = get_user_prefix(s) THEN TypeDefault(k[2]) ELSE s.data[k]]]

ensure_user_data_exists(s) == EnsureFrom(s, 1)

\* the script without lines 67-74
InitCredentialDataSkipped(s) == s

\* lines 67-74: the fingerprint follows the stored credential on every run
InitCredentialData(s) ==
    IF s.api_key # ""
    THEN LET current_hash == get_api_key_hash(s.api_key)
         IN IF current_hash # s.current_api_key_hash
            THEN ensure_user_data_exists([s EXCEPT !.current_api_key_hash = current_hash])
            ELSE s
    ELSE [s EXCEPT !.current_api_key_hash = NoHash]

\* lines 76-92: the un-prefixed ("legacy") keys, each stored when missing
LegacyInit(s) ==
    IF \A b \in BaseKeys : <<"", b>> \in DOMAIN s.data
    THEN s
    ELSE [s EXCEPT !.data =
             [k \in DOMAIN s.data \cup {<<"", b>> : b \in BaseKeys} |->
                 IF k \in DOMAIN s.data THEN s.data[k] ELSE TypeDefault(k[2])]]

\* st.session_state.<base_key>: the un-prefixed key, whatever the credential
Legacy(s, base_key) == s.data[<<"", base_key>>]
SetLegacy(s, base_key, value) == [s EXCEPT !.data = Put(s.data, <<"", base_key>>, value)]

\* lines 266-269: the sidebar's progress counters read through user_data
SidebarProgress(s) ==
    get_user_data_effect(get_user_data_effect(s, "subjects", PyNone), "test_history", PyNone)

\* lines 22-92 and 266-269: what every script run does before the page body
ScriptStart(s) == SidebarProgress(LegacyInit(InitCredentialData(s)))

\* lines 171-183: the sidebar's API key change handler; st.rerun() starts the
\* script again, and that run is part of the same interaction.
ApiKeyChange(s, api_key_input) ==
    IF api_key_input # s.api_key
    THEN IF api_key_input # ""
         THEN ScriptStart(ensure_user_data_exists(
                  [s EXCEPT !.api_key = api_key_input,
                            !.current_api_key_hash = get_api_key_hash(api_key_input)]))
         ELSE ScriptStart([s EXCEPT !.api_key = api_key_input,
                                    !.current_api_key_hash = NoHash])
    ELSE s

\* lines 193-255: the agents exist when a key is stored and LLM() did not raise
AgentsAvailable(s, llm_ok) == s.api_key # "" /\ llm_ok

(***************************************************************************)
(* What a script run shows and dispatches.                                 *)
(***************************************************************************)
NoKickoff == <<>>
\* one crew.kickoff(): the pipeline, the credential of its LLM, its tasks in
\* order, the user's fields its instructions hold, and what the call did
Kickoff(pipeline, api_key, stages, description, result) ==
    <<[pipeline |-> pipeline, api_key |-> api_key, stages |-> stages,
       description |-> description, result |-> result]>>
\* event and input: the widget that started the run and the value it had;
\* shown: the message drawn; text: the text drawn with it
ShownText(event, input, shown, text, kickoff) ==
    [event |-> event, input |-> input, shown |-> shown, text |-> text, kickoff |-> kickoff]
Shown(event, input, shown, kickoff) == ShownText(event, input, shown, "", kickoff)

(***************************************************************************)
(* Subjects & Syllabus page (lines 300-378).                               *)
(***************************************************************************)
NameInputs == {"", "Algebra", "algebra", "Physics"}
\* the syllabus text area, as its lines (syllabus_content.split('\n'))
SyllabusInputs == {<<>>, <<"t1", "", " t2 ">>}

\* str.lower() on the subject names of the model
lower(x) == IF x = "Algebra" THEN "algebra" ELSE IF x = "Physics" THEN "physics" ELSE x

\* line 336: [s.strip() for s in lines if s.strip()]
RECURSIVE StripLines(_)
StripLines(lines) ==
    IF lines = <<>> THEN <<>>
    ELSE IF strip(Head(lines)) # ""
         THEN <<strip(Head(lines))>> \o StripLines(Tail(lines))
         ELSE StripLines(Tail(lines))

\* lines 334-341
SubjectData(subject_name, syllabus_content) ==
    [name |-> subject_name,
     syllabus |-> StripLines(syllabus_content),
     difficulty |-> "Medium",
     priority |-> "Medium",
     hours_per_week |-> 5,
     added_date |-> "today"]

\* line 344, compared without lower()
ExistingExact(subjects, subject_name) ==
    {i \in 1..Len(subjects) : subjects[i].name = subject_name}

\* line 344: the subjects whose name equals subject_name ignoring case
Existing(subjects, subject_name) ==
    {i \in 1..Len(subjects) : lower(subjects[i].name) = lower(subject_name)}

TotalSubjects(s) ==
    LET StoredUnder(p) == IF <<p, "subjects">> \in DOMAIN s.data
                          THEN Len(s.data[<<p, "subjects">>].v) ELSE 0
    IN StoredUnder("") + StoredUnder("user_d0_") + StoredUnder("user_d1_")
       + StoredUnder("user_d2_")

\* lines 333-354: the add_subject_form submit handler; result is the session
\* state and what was shown
AddSubjectRun(s0, subject_name, syllabus_content) ==
    LET s == ScriptStart(s0)
        subject_data == SubjectData(subject_name, syllabus_content)
    IN IF subject_name = ""
       THEN [s |-> s, shown |-> "none"]
       ELSE IF Existing(get_user_data(s, "subjects").v, subject_name) # {}
       THEN [s |-> s, shown |-> "error: already exists"]
       ELSE LET subjects_list == Append(get_user_data(s, "subjects").v, subject_data)
                s1 == set_user_data(s, "subjects", PyList(subjects_list))
                syllabus_dict == Put(get_user_data(s1, "syllabus").v,
                                     subject_name, subject_data.syllabus)
                s2 == set_user_data(s1, "syllabus", PyDict(syllabus_dict))
            IN [s |-> s2, shown |-> "success: added"]

AddSubject(subject_name, syllabus_content) ==
    /\ app = "stm"
    /\ LET r == AddSubjectRun(session_state, subject_name, syllabus_content)
       IN /\ r.shown = "success: added" => TotalSubjects(session_state) < MaxSubjects
          /\ session_state' = r.s
          /\ io' = Shown("add_subject", subject_name, r.shown, NoKickoff)
    /\ UNCHANGED <<app, environ, outreach_state, lead_state, peer>>

\* lines 371-378 with the syllabus entry kept
RemoveSubjectKeepSyllabus(s0, idx) ==
    LET s == ScriptStart(s0)
        subjects_list == get_user_data(s, "subjects").v
    IN [s |-> ScriptStart(set_user_data(s, "subjects", PyList(RemoveAt(subjects_list, idx + 1)))),
        shown |-> "rerun"]

\* lines 371-378: the Remove button of the subject at index idx (from 0);
\* del raises KeyError when the name is no key of the syllabus map
RemoveSubjectRun(s0, idx) ==
    LET s == ScriptStart(s0)
        subjects_list == get_user_data(s, "subjects").v
        subject == subjects_list[idx + 1]
        s1 == set_user_data(s, "subjects", PyList(RemoveAt(subjects_list, idx + 1)))
        syllabus_dict == get_user_data(s1, "syllabus").v
    IN IF subject.name \in DOMAIN syllabus_dict
       THEN [s |-> ScriptStart(set_user_data(s1, "syllabus",
                                             PyDict(Drop(syllabus_dict, subject.name)))),
             shown |-> "rerun"]
       ELSE [s |-> s1, shown |-> "exception"]

RemoveSubject(idx) ==
    /\ app = "stm"
    /\ idx < Len(get_user_data(ScriptStart(session_state), "subjects").v)
    /\ LET r == RemoveSubjectRun(session_state, idx)
       IN /\ session_state' = r.s
          /\ io' = Shown("remove_subject", idx, r.shown, NoKickoff)
    /\ UNCHANGED <<app, environ, outreach_state, lead_state, peer>>

\* lines 160-183: typing a different key into the sidebar field
SetApiKey(api_key_input) ==
    /\ app = "stm"
    /\ api_key_input # session_state.api_key
    /\ session_state' = ApiKeyChange(ScriptStart(session_state), api_key_input)
    /\ io' = Shown("api_key", api_key_input,
                   IF api_key_input # "" THEN "success: isolated" ELSE "warning: shared",
                   NoKickoff)
    /\ UNCHANGED <<app, environ, outreach_state, lead_state, peer>>

(***************************************************************************)
(* Study Routine page (lines 380-453).  The page, and the Tests page, are  *)
(* drawn only when st.session_state.subjects, the un-prefixed key, is not  *)
(* empty (lines 384 and 459).                                              *)
(***************************************************************************)
RoutineTexts == {"plan1", "plan2"}

PageGateOpen(s) == Truthy(Legacy(s, "subjects"))

\* lines 406-410: the subjects written into the prompt
SubjectsInfo(s) ==
    [i \in 1..Len(Legacy(s, "subjects").v) |-> Legacy(s, "subjects").v[i].name]

\* lines 401-442 with the routine stored before the executor returns
GenerateStudyRoutineEager(s0, llm_ok, result) ==
    LET s == ScriptStart(s0)
    IN IF ~AgentsAvailable(s, llm_ok)
       THEN [s |-> s, shown |-> "error: configure key", kickoff |-> NoKickoff]
       ELSE LET call == Kickoff("study_routine", s.api_key, <<"routine_task">>, SubjectsInfo(s),
                                result)
                s1 == SetLegacy(s, "study_routine", PyStr(result.raw))
            IN IF result.raised
               THEN [s |-> s1, shown |-> "exception", kickoff |-> call]
               ELSE [s |-> ScriptStart(s1), shown |-> "rerun", kickoff |-> call]

\* lines 401-442: the Generate Study Routine button.  crew.kickoff() is not
\* inside a try: when it raises, the script run ends with the exception.
GenerateStudyRoutineRun(s0, llm_ok, result) ==
    LET s == ScriptStart(s0)
    IN IF ~AgentsAvailable(s, llm_ok)
       THEN [s |-> s, shown |-> "error: configure key", kickoff |-> NoKickoff]
       ELSE LET call == Kickoff("study_routine", s.api_key, <<"routine_task">>, SubjectsInfo(s),
                                result)
            IN IF result.raised
               THEN [s |-> s, shown |-> "exception", kickoff |-> call]
               ELSE [s |-> ScriptStart(SetLegacy(s, "study_routine", PyStr(result.raw))),
                     shown |-> "rerun", kickoff |-> call]

GenerateStudyRoutine(llm_ok, result) ==
    /\ app = "stm"
    /\ PageGateOpen(ScriptStart(session_state))
    /\ LET r == GenerateStudyRoutineRun(session_state, llm_ok, result)
       IN /\ session_state' = r.s
          /\ io' = Shown("generate_routine", "", r.shown, r.kickoff)
    /\ UNCHANGED <<app, environ, outreach_state, lead_state, peer>>

\* lines 445-451: the Clear Routine button, drawn when a routine is stored
ClearRoutine ==
    /\ app = "stm"
    /\ PageGateOpen(ScriptStart(session_state))
    /\ Truthy(Legacy(ScriptStart(session_state), "study_routine"))
    /\ session_state' = ScriptStart(SetLegacy(ScriptStart(session_state), "study_routine", PyNone))
    /\ io' = Shown("clear_routine", "", "rerun", NoKickoff)
    /\ UNCHANGED <<app, environ, outreach_state, lead_state, peer>>

(***************************************************************************)
(* Tests & Exams page (lines 455-627).                                     *)
(***************************************************************************)
TestTypes == {"Quick Test (5 questions)", "Grand Test (20 questions)"}

\* line 491
NumQuestions(test_type) ==
    IF test_type = "Quick Test (5 questions)" THEN 5
    ELSE IF test_type = "Standard Test (10 questions)" THEN 10 ELSE 20

\* A question; the options are "A. ...", "B. ...", ... and the radio's answer
\* is the first character of the chosen option (line 565).
QuestionA == [question |-> "q1", correct |-> "A", explanation |-> "e1"]
QuestionB == [question |-> "q2", correct |-> "B", explanation |-> "e2"]
QuestionLists == {<<>>, <<QuestionA>>, <<QuestionA, QuestionB>>}
NoAnswer == "None"
AnswerChoices == {"A", "B", NoAnswer}

\* The raw output of the test pipeline, as tokens: "{" and "}", "Q" for the
\* text "questions": [...], "[]" for a JSON array, "x" for any other text.
RawOutputs ==
    { <<"{", "Q", "}">>,
      <<"x", "{", "Q", "}", "x">>,
      <<"{", "Q", "}", "x", "{", "}">>,
      <<"{", "}">>,
      <<"x", "{", "}">>,
      <<"{", "x", "}">>,
      <<"}", "{", "Q", "}">>,
      <<"}", "Q", "{">>,
      <<"{", "Q">>,
      <<"[]">>,
      <<"x">>,
      <<>> }

\* What crew.kickoff() does: it raises, or it returns a result with .raw
Raised == [raised |-> TRUE, raw |-> <<>>, questions |-> <<>>]
Returned(raw, questions) == [raised |-> FALSE, raw |-> raw, questions |-> questions]
\* the results of the test pipeline; questions is the array "Q" stands for:
\* one question, and any of QuestionLists in the output that is the JSON
\* object alone
TestResults ==
    {Raised} \cup
    {Returned(raw, IF \E i \in 1..Len(raw) : raw[i] = "Q" THEN <<QuestionA>> ELSE <<>>) :
         raw \in RawOutputs} \cup
    {Returned(<<"{", "Q", "}">>, qs) : qs \in QuestionLists}
TextResults(texts) ==
    {[raised |-> TRUE, raw |-> ""]} \cup {[raised |-> FALSE, raw |-> x] : x \in texts}

Positions(raw, tok) == {i \in 1..Len(raw) : raw[i] = tok}
Min(S) == CHOOSE x \in S : \A y \in S : x <= y
Max(S) == CHOOSE x \in S : \A y \in S : x >= y

\* line 532: re.search(r'\{.*\}', raw, re.DOTALL), greedy
JsonMatchFound(raw) ==
    \E i \in Positions(raw, "{") : \E j \in Positions(raw, "}") : i < j

\* re.search with the non-greedy pattern \{.*?\}: to the first "}" after the
\* first "{"
JsonMatchGroupShortest(raw) ==
    SubSeq(raw, Min(Positions(raw, "{")),
           Min({j \in Positions(raw, "}") : j > Min(Positions(raw, "{"))}))

\* line 534: json_match.group(), from the first "{" to the last "}"
JsonMatchGroup(raw) ==
    SubSeq(raw, Min(Positions(raw, "{")), Max(Positions(raw, "}")))

\* json.loads on the token texts: what kind of value it returns, or "error"
JsonLoads(text) ==
    IF text = <<"{", "Q", "}">> THEN "object with questions"
    ELSE IF text = <<"{", "}">> THEN "object"
    ELSE IF text = <<"[]">> THEN "array"
    ELSE "error"

\* lines 532-536
ParsedTestData(raw) ==
    IF JsonMatchFound(raw) THEN JsonLoads(JsonMatchGroup(raw)) ELSE JsonLoads(raw)

\* lines 552-566: drawing the Take Test form stores each radio's value;
\* radio[idx] is the value of the radio of question idx (from 0)
RenderTakeTest(s, radio) ==
    IF Truthy(Legacy(s, "current_test"))
    THEN LET n == Len(Legacy(s, "current_test").v.questions)
             old == Legacy(s, "test_answers").v
         IN SetLegacy(s, "test_answers",
                PyDict([idx \in DOMAIN old \cup 0..(n - 1) |->
                           IF idx \in 0..(n - 1) THEN radio[idx] ELSE old[idx]]))
    ELSE s

\* the radios of a form that was not submitted return None
Unanswered == [idx \in 0..1 |-> NoAnswer]

\* lines 538-545
InstallTest(s, test_subject, test_type, questions) ==
    SetLegacy(SetLegacy(s, "current_test",
                  PyDict([subject |-> test_subject, type |-> test_type,
                          difficulty |-> "Medium", questions |-> questions,
                          created_at |-> "now"])),
              "test_answers", PyDict(EmptyDict))

\* lines 483-549 with the current test cleared when the output does not parse
GenerateTestClearing(s0, test_subject, test_type, llm_ok, result) ==
    LET s == ScriptStart(s0)
    IN IF ~AgentsAvailable(s, llm_ok)
       THEN [s |-> RenderTakeTest(s, Unanswered),
             shown |-> "error: configure key", kickoff |-> NoKickoff]
       ELSE LET call == Kickoff("test_generation", s.api_key, <<"test_task">>, <<test_subject>>,
                                result)
            IN IF result.raised
               THEN [s |-> s, shown |-> "exception", kickoff |-> call]
               ELSE IF ParsedTestData(result.raw) = "object with questions"
               THEN [s |-> RenderTakeTest(InstallTest(s, test_subject, test_type,
                                                      result.questions),
                                          Unanswered),
                     shown |-> "success: test created", kickoff |-> call]
               ELSE [s |-> SetLegacy(s, "current_test", PyNone),
                     shown |-> "error: raw text", kickoff |-> call]

\* lines 483-549: the Generate Test button, and the Take Test tab drawn
\* after it in the same run.  crew.kickoff() is not inside the try.
GenerateTestRun(s0, test_subject, test_type, llm_ok, result) ==
    LET s == ScriptStart(s0)
    IN IF ~AgentsAvailable(s, llm_ok)
       THEN [s |-> RenderTakeTest(s, Unanswered),
             shown |-> "error: configure key", kickoff |-> NoKickoff]
       ELSE LET call == Kickoff("test_generation", s.api_key, <<"test_task">>, <<test_subject>>,
                                result)
            IN IF result.raised
               THEN [s |-> s, shown |-> "exception", kickoff |-> call]
               ELSE IF ParsedTestData(result.raw) = "object with questions"
               THEN [s |-> RenderTakeTest(InstallTest(s, test_subject, test_type,
                                                      result.questions),
                                          Unanswered),
                     shown |-> "success: test created", kickoff |-> call]
               ELSE [s |-> RenderTakeTest(s, Unanswered),
                     shown |-> "error: raw text", kickoff |-> call]

GenerateTest(test_subject, test_type, llm_ok, result) ==
    /\ app = "stm"
    /\ PageGateOpen(ScriptStart(session_state))
    /\ \E i \in 1..Len(Legacy(ScriptStart(session_state), "subjects").v) :
           Legacy(ScriptStart(session_state), "subjects").v[i].name = test_subject
    /\ LET r == GenerateTestRun(session_state, test_subject, test_type, llm_ok, result)
       IN /\ session_state' = r.s
          /\ io' = ShownText("generate_test", test_subject, r.shown,
                              IF r.shown = "error: raw text" THEN result.raw ELSE "", r.kickoff)
    /\ UNCHANGED <<app, environ, outreach_state, lead_state, peer>>

\* lines 571-576, counting a missing answer as correct
RECURSIVE CountCorrectLenient(_, _, _)
CountCorrectLenient(questions, test_answers, idx) ==
    IF idx >= Len(questions) THEN 0
    ELSE (IF idx \notin DOMAIN test_answers \/ test_answers[idx] = NoAnswer
             \/ test_answers[idx] = questions[idx + 1].correct
          THEN 1 ELSE 0) + CountCorrectLenient(questions, test_answers, idx + 1)

\* lines 571-576: test_answers.get(idx) == q["correct"], question by question
RECURSIVE CountCorrect(_, _, _)
CountCorrect(questions, test_answers, idx) ==
    IF idx >= Len(questions) THEN 0
    ELSE (IF idx \in DOMAIN test_answers /\ test_answers[idx] = questions[idx + 1].correct
          THEN 1 ELSE 0) + CountCorrect(questions, test_answers, idx + 1)

\* line 578: (correct / total) * 100, kept as the exact quotient num/den
Score(correct, total) == [num |-> correct * 100, den |-> total]

\* lines 556-606: the test_form submit handler.  The run first draws the
\* form with the submitted radio values, then scores; total = 0 raises
\* ZeroDivisionError at line 578.
SubmitTestRun(s0, radio) ==
    LET s == RenderTakeTest(ScriptStart(s0), radio)
        current_test == Legacy(s, "current_test").v
        total == Len(current_test.questions)
        correct == CountCorrect(current_test.questions, Legacy(s, "test_answers").v, 0)
        test_result == [subject |-> current_test.subject, type |-> current_test.type,
                        difficulty |-> current_test.difficulty,
                        score |-> Score(correct, total),
                        correct |-> correct, total |-> total, date |-> "now"]
        s1 == SetLegacy(s, "test_history",
                        PyList(Append(Legacy(s, "test_history").v, test_result)))
    IN IF total = 0
       THEN [s |-> s, shown |-> "exception"]
       ELSE [s |-> SetLegacy(SetLegacy(s1, "current_test", PyNone),
                             "test_answers", PyDict(EmptyDict)),
             shown |-> "success: test completed"]

SubmitTest(radio) ==
    /\ app = "stm"
    /\ PageGateOpen(ScriptStart(session_state))
    /\ Truthy(Legacy(ScriptStart(session_state), "current_test"))
    /\ DOMAIN radio = 0..(Len(Legacy(ScriptStart(session_state), "current_test").v.questions) - 1)
    /\ LET r == SubmitTestRun(session_state, radio)
       IN /\ r.shown = "success: test completed" =>
                 Len(Legacy(session_state, "test_history").v) < MaxHistory
          /\ session_state' = r.s
          /\ io' = Shown("submit_test", radio, r.shown, NoKickoff)
    /\ UNCHANGED <<app, environ, outreach_state, lead_state, peer>>

(***************************************************************************)
(* Homework Help and Definitions pages (lines 629-733).  The two handlers  *)
(* are the same code on the keys homework_chat and definitions_chat.       *)
(***************************************************************************)
Prompts == {"p1"}
Replies == {"r1"}
ConfigWarning == "warning: configure key"

Message(role, content) == [role |-> role, content |-> content]

\* lines 639-676 with the transcript so far put into the task description
ChatRunWithHistory(s0, chat_key, pipeline, prompt, llm_ok, result) ==
    LET s == ScriptStart(s0)
        earlier == Legacy(s, chat_key).v
        s1 == SetLegacy(s, chat_key, PyList(Append(earlier, Message("user", prompt))))
    IN IF ~AgentsAvailable(s, llm_ok)
       THEN [s |-> SetLegacy(s1, chat_key,
                       PyList(Append(Legacy(s1, chat_key).v,
                                     Message("assistant", ConfigWarning)))),
             shown |-> ConfigWarning, kickoff |-> NoKickoff]
       ELSE LET call == Kickoff(pipeline, s.api_key, <<"chat_task">>,
                                [i \in 1..Len(earlier) |-> earlier[i].content] \o <<prompt>>,
                                result)
            IN IF result.raised
               THEN [s |-> s1, shown |-> "exception", kickoff |-> call]
               ELSE [s |-> SetLegacy(s1, chat_key,
                               PyList(Append(Legacy(s1, chat_key).v,
                                             Message("assistant", result.raw)))),
                     shown |-> "response", kickoff |-> call]

\* lines 639-676 with the transcript started again by every message
ChatRunFresh(s0, chat_key, pipeline, prompt, llm_ok, result) ==
    LET s == ScriptStart(s0)
        s1 == SetLegacy(s, chat_key, PyList(<<Message("user", prompt)>>))
    IN IF ~AgentsAvailable(s, llm_ok)
       THEN [s |-> SetLegacy(s1, chat_key,
                       PyList(Append(Legacy(s1, chat_key).v,
                                     Message("assistant", ConfigWarning)))),
             shown |-> ConfigWarning, kickoff |-> NoKickoff]
       ELSE LET call == Kickoff(pipeline, s.api_key, <<"chat_task">>, <<prompt>>, result)
            IN IF result.raised
               THEN [s |-> s1, shown |-> "exception", kickoff |-> call]
               ELSE [s |-> SetLegacy(s1, chat_key,
                               PyList(Append(Legacy(s1, chat_key).v,
                                             Message("assistant", result.raw)))),
                     shown |-> "response", kickoff |-> call]

\* lines 639-676 and 692-730: one chat message.  crew.kickoff() is not
\* inside a try: when it raises, the run ends after the user's entry was
\* appended.
ChatRun(s0, chat_key, pipeline, prompt, llm_ok, result) ==
    LET s == ScriptStart(s0)
        s1 == SetLegacy(s, chat_key,
                        PyList(Append(Legacy(s, chat_key).v, Message("user", prompt))))
    IN IF ~AgentsAvailable(s, llm_ok)
       THEN [s |-> SetLegacy(s1, chat_key,
                       PyList(Append(Legacy(s1, chat_key).v,
                                     Message("assistant", ConfigWarning)))),
             shown |-> ConfigWarning, kickoff |-> NoKickoff]
       ELSE LET call == Kickoff(pipeline, s.api_key, <<"chat_task">>, <<prompt>>, result)
            IN IF result.raised
               THEN [s |-> s1, shown |-> "exception", kickoff |-> call]
               ELSE [s |-> SetLegacy(s1, chat_key,
                               PyList(Append(Legacy(s1, chat_key).v,
                                             Message("assistant", result.raw)))),
                     shown |-> "response", kickoff |-> call]

\* the chat input of the Homework Help page, the transcript kept within bound
HomeworkMessageWithin(bound, prompt, llm_ok, result) ==
    /\ app = "stm"
    /\ Len(Legacy(session_state, "homework_chat").v) + 2 <= bound
    /\ LET r == ChatRun(session_state, "homework_chat", "homework_help",
                        prompt, llm_ok, result)
       IN /\ session_state' = r.s
          /\ io' = Shown("homework_message", prompt, r.shown, r.kickoff)
    /\ UNCHANGED <<app, environ, outreach_state, lead_state, peer>>

HomeworkMessage(prompt, llm_ok, result) ==
    HomeworkMessageWithin(MaxChat, prompt, llm_ok, result)

\* the chat input of the Definitions page, the transcript kept within bound
DefinitionMessageWithin(bound, prompt, llm_ok, result) ==
    /\ app = "stm"
    /\ Len(Legacy(session_state, "definitions_chat").v) + 2 <= bound
    /\ LET r == ChatRun(session_state, "definitions_chat", "definition_lookup",
                        prompt, llm_ok, result)
       IN /\ session_state' = r.s
          /\ io' = Shown("definition_message", prompt, r.shown, r.kickoff)
    /\ UNCHANGED <<app, environ, outreach_state, lead_state, peer>>

DefinitionMessage(prompt, llm_ok, result) ==
    DefinitionMessageWithin(MaxChat, prompt, llm_ok, result)

\* lines 678-680 and 732-734: the Clear buttons
ClearChat ==
    /\ app = "stm"
    /\ session_state' = ScriptStart(SetLegacy(ScriptStart(session_state), "homework_chat",
                                              PyList(<<>>)))
    /\ io' = Shown("clear_chat", "", "rerun", NoKickoff)
    /\ UNCHANGED <<app, environ, outreach_state, lead_state, peer>>

ClearDefinitions ==
    /\ app = "stm"
    /\ session_state' = ScriptStart(SetLegacy(ScriptStart(session_state), "definitions_chat",
                                              PyList(<<>>)))
    /\ io' = Shown("clear_definitions", "", "rerun", NoKickoff)
    /\ UNCHANGED <<app, environ, outreach_state, lead_state, peer>>

(***************************************************************************)
(* Cold Email Generator (src/Cold_Email.py).                               *)
(***************************************************************************)
EmailTexts == {"email1", "email2"}
SenderNames == {"", "Ann"}
Companies == {"", "Acme"}
TargetUrls == {"", "https://openai.com/"}

SetEnviron(api_key) == [GOOGLE_API_KEY |-> api_key, GEMINI_API_KEY |-> api_key]

\* lines 32-52: every run of the script, api_key_input being the text in the
\* key field; the result is os.environ and the LLM object (the sequence of its
\* api_key), empty when there is none
OutreachSidebar(env, api_key_input, llm_ok) ==
    IF api_key_input # ""
    THEN [environ |-> SetEnviron(strip(api_key_input)),
          llm |-> IF llm_ok THEN <<strip(api_key_input)>> ELSE <<>>]
    ELSE [environ |-> env, llm |-> <<>>]

\* Crew.kickoff() under process=Process.sequential (the executor, crewai, is
\* no file of the repository): the tasks run one after the other in the order
\* of the list, each started when the one before has returned; a task that
\* raises ends the run and kickoff() raises; the result is the output of the
\* last task.  failed is the number of the task that raises, 0 for none.
ProcessSequential(stages, outputs, failed) ==
    LET ran == IF failed = 0 THEN Len(stages) ELSE failed
    IN [raised |-> failed # 0,
        raw |-> IF failed = 0 THEN outputs[Len(stages)] ELSE "",
        events |-> [i \in 1..(2 * ran) |->
                       IF i % 2 = 1
                       THEN [event |-> "start", stage |-> stages[(i + 1) \div 2], output |-> ""]
                       ELSE IF failed = i \div 2
                       THEN [event |-> "raise", stage |-> stages[i \div 2], output |-> ""]
                       ELSE [event |-> "return", stage |-> stages[i \div 2],
                             output |-> outputs[i \div 2]]]]

\* the outcomes of one kickoff() of a crew of three tasks
CrewResults(stages, texts) ==
    {ProcessSequential(stages, <<"analysis", "brief", x>>, failed) :
         x \in texts, failed \in 0..Len(stages)}

\* lines 214-219 with the tasks listed in another order
EmailStagesUnordered == <<"task_strategize", "task_research", "task_write">>

\* lines 162-219: the tasks of the crew, in order
EmailStages == <<"task_research", "task_strategize", "task_write">>

\* lines 109-228: the Generate Cold Email button
\* lines 109-228 with kickoff() called again when it raised
OutreachGenerateRetry(st, env, api_key_input, sender_name, target_company, llm_ok, result) ==
    LET side == OutreachSidebar(env, api_key_input, llm_ok)
        call == Kickoff("outreach", IF side.llm = <<>> THEN "" ELSE side.llm[1], EmailStages,
                        <<sender_name, target_company>>, result)
    IN IF api_key_input = "" THEN [st |-> st, shown |-> "error: enter key", kickoff |-> NoKickoff]
       ELSE IF sender_name = "" THEN [st |-> st, shown |-> "error: enter name", kickoff |-> NoKickoff]
       ELSE IF target_company = "" THEN [st |-> st, shown |-> "error: enter company", kickoff |-> NoKickoff]
       ELSE IF side.llm = <<>> THEN [st |-> st, shown |-> "error: LLM not initialized", kickoff |-> NoKickoff]
       ELSE IF result.raised
       THEN [st |-> st, shown |-> "error: generating email", kickoff |-> call \o call]
       ELSE [st |-> [email_generated |-> TRUE, generated_email |-> result.raw],
             shown |-> "email", kickoff |-> call]

\* lines 109-228 without the checks of lines 113-116
OutreachGenerateUnvalidated(st, env, api_key_input, sender_name, target_company, llm_ok, result) ==
    LET side == OutreachSidebar(env, api_key_input, llm_ok)
        call == Kickoff("outreach", IF side.llm = <<>> THEN "" ELSE side.llm[1], EmailStages,
                        <<sender_name, target_company>>, result)
    IN IF api_key_input = "" THEN [st |-> st, shown |-> "error: enter key", kickoff |-> NoKickoff]
       ELSE IF side.llm = <<>> THEN [st |-> st, shown |-> "error: LLM not initialized", kickoff |-> NoKickoff]
       ELSE IF result.raised
       THEN [st |-> st, shown |-> "error: generating email", kickoff |-> call]
       ELSE [st |-> [email_generated |-> TRUE, generated_email |-> result.raw],
             shown |-> "email", kickoff |-> call]

\* lines 109-228 with the stored text cleared when kickoff() raises
OutreachGenerateClearing(st, env, api_key_input, sender_name, target_company, llm_ok, result) ==
    LET side == OutreachSidebar(env, api_key_input, llm_ok)
        call == Kickoff("outreach", IF side.llm = <<>> THEN "" ELSE side.llm[1], EmailStages,
                        <<sender_name, target_company>>, result)
    IN IF api_key_input = "" THEN [st |-> st, shown |-> "error: enter key", kickoff |-> NoKickoff]
       ELSE IF sender_name = "" THEN [st |-> st, shown |-> "error: enter name", kickoff |-> NoKickoff]
       ELSE IF target_company = "" THEN [st |-> st, shown |-> "error: enter company", kickoff |-> NoKickoff]
       ELSE IF side.llm = <<>> THEN [st |-> st, shown |-> "error: LLM not initialized", kickoff |-> NoKickoff]
       ELSE IF result.raised
       THEN [st |-> [st EXCEPT !.generated_email = ""],
             shown |-> "error: generating email", kickoff |-> call]
       ELSE [st |-> [email_generated |-> TRUE, generated_email |-> result.raw],
             shown |-> "email", kickoff |-> call]

OutreachGenerateRun(st, env, api_key_input, sender_name, target_company, llm_ok, result) ==
    LET side == OutreachSidebar(env, api_key_input, llm_ok)
        call == Kickoff("outreach", IF side.llm = <<>> THEN "" ELSE side.llm[1], EmailStages,
                        <<sender_name, target_company>>, result)
    IN IF api_key_input = "" THEN [st |-> st, shown |-> "error: enter key", kickoff |-> NoKickoff]
       ELSE IF sender_name = "" THEN [st |-> st, shown |-> "error: enter name", kickoff |-> NoKickoff]
       ELSE IF target_company = "" THEN [st |-> st, shown |-> "error: enter company", kickoff |-> NoKickoff]
       ELSE IF side.llm = <<>> THEN [st |-> st, shown |-> "error: LLM not initialized", kickoff |-> NoKickoff]
       ELSE IF result.raised
       THEN [st |-> st, shown |-> "error: generating email", kickoff |-> call]
       ELSE [st |-> [email_generated |-> TRUE, generated_email |-> result.raw],
             shown |-> "email", kickoff |-> call]

OutreachGenerate(sender_name, target_company, llm_ok, result) ==
    /\ app = "outreach"
    /\ LET r == OutreachGenerateRun([email_generated |-> outreach_state.email_generated,
                                     generated_email |-> outreach_state.generated_email],
                                    environ, outreach_state.api_key_input, sender_name,
                                    target_company, llm_ok, result)
       IN /\ outreach_state' = [outreach_state EXCEPT
                                   !.email_generated = r.st.email_generated,
                                   !.generated_email = r.st.generated_email]
          /\ io' = Shown("generate_email", <<sender_name, target_company>>, r.shown, r.kickoff)
    /\ environ' = OutreachSidebar(environ, outreach_state.api_key_input, llm_ok).environ
    /\ UNCHANGED <<app, session_state, lead_state, peer>>

\* lines 32-52: typing a different key into the sidebar field
OutreachSetKey(api_key_input, llm_ok) ==
    /\ app = "outreach"
    /\ api_key_input # outreach_state.api_key_input
    /\ outreach_state' = [outreach_state EXCEPT !.api_key_input = api_key_input]
    /\ environ' = OutreachSidebar(environ, api_key_input, llm_ok).environ
    /\ io' = Shown("api_key", api_key_input,
                   IF api_key_input = "" THEN "warning: enter key"
                   ELSE IF llm_ok THEN "success: key configured"
                   ELSE "error: initializing LLM",
                   NoKickoff)
    /\ UNCHANGED <<app, session_state, lead_state, peer>>

\* lines 247-250: the Generate Another button, drawn when an email is stored
GenerateAnother ==
    /\ app = "outreach"
    /\ outreach_state.email_generated
    /\ outreach_state' = [outreach_state EXCEPT !.email_generated = FALSE,
                                                !.generated_email = ""]
    /\ environ' = OutreachSidebar(environ, outreach_state.api_key_input, TRUE).environ
    /\ io' = Shown("generate_another", "", "rerun", NoKickoff)
    /\ UNCHANGED <<app, session_state, lead_state, peer>>

(***************************************************************************)
(* Email Coder (src/ColdEmail.py).                                         *)
(***************************************************************************)
\* lines 26-40: every run of the script, api_key_input being the text in the
\* key field; the key is stored only when the field is not empty
LeadSidebar(st, env, api_key_input) ==
    IF api_key_input # ""
    THEN [st |-> [st EXCEPT !.api_key = strip(api_key_input)],
          environ |-> SetEnviron(strip(api_key_input))]
    ELSE [st |-> st, environ |-> env]

\* lines 118-141: the tasks of the crew, in order
LeadStages == <<"task_analyze", "task_strategize", "task_write">>

\* lines 66-148: the Generate Cold Email button, run after the sidebar;
\* st is the session state the sidebar left
LeadGenerateRun(st, api_key_input, target_url, llm_ok, result) ==
    LET call == Kickoff("lead_qualification", st.api_key, LeadStages, <<target_url>>, result)
    IN IF st.api_key = ""
       THEN [shown |-> "error: enter key", text |-> "", kickoff |-> NoKickoff]
       ELSE IF target_url = ""
       THEN [shown |-> "error: enter url", text |-> "", kickoff |-> NoKickoff]
       ELSE IF ~llm_ok
       THEN [shown |-> "error: LLM failed", text |-> "", kickoff |-> NoKickoff]
       ELSE IF result.raised
       THEN [shown |-> "error: generating email", text |-> "", kickoff |-> call]
       ELSE [shown |-> "email", text |-> result.raw, kickoff |-> call]

LeadGenerate(target_url, llm_ok, result) ==
    /\ app = "lead"
    /\ LET side == LeadSidebar(lead_state, environ, lead_state.api_key_input)
           r == LeadGenerateRun(side.st, lead_state.api_key_input, target_url, llm_ok, result)
       IN /\ lead_state' = side.st
          /\ environ' = side.environ
          /\ io' = ShownText("generate_email", <<target_url>>, r.shown, r.text, r.kickoff)
    /\ UNCHANGED <<app, session_state, outreach_state, peer>>

\* lines 26-40: typing a different key into the sidebar field
LeadSetKey(api_key_input) ==
    /\ app = "lead"
    /\ api_key_input # lead_state.api_key_input
    /\ LET side == LeadSidebar([lead_state EXCEPT !.api_key_input = api_key_input],
                               environ, api_key_input)
       IN /\ lead_state' = side.st
          /\ environ' = side.environ
    /\ io' = Shown("api_key", api_key_input,
                   IF api_key_input = "" THEN "warning: enter key" ELSE "success: key configured",
                   NoKickoff)
    /\ UNCHANGED <<app, session_state, outreach_state, peer>>

\* lines 52-53: the Click me button
ClickMe ==
    /\ app = "lead"
    /\ lead_state.count < MaxClicks
    /\ LET side == LeadSidebar(lead_state, environ, lead_state.api_key_input)
       IN /\ lead_state' = [side.st EXCEPT !.count = @ + 1]
          /\ environ' = side.environ
    /\ io' = Shown("click", "", "none", NoKickoff)
    /\ UNCHANGED <<app, session_state, outreach_state, peer>>

(***************************************************************************)
(* The state after the first script run of a session.  The environment     *)
(* may hold a key (load_dotenv); the key fields start from it              *)
(* (Subject-Time-Manger.py line 24, Cold_Email.py line 35, ColdEmail.py    *)
(* line 29).  api_key_input in the states of the two email programs is the *)
(* text the key field holds between runs.                                  *)
(***************************************************************************)
\* the second session before its page is opened; typed is the sequence of the
\* last text its user typed into the key field, empty when nothing was typed
NoPeer ==
    [open |-> FALSE, api_key_input |-> "", typed |-> <<>>, api_key |-> "",
     email_generated |-> FALSE, generated_email |-> "", kickoff |-> <<>>]

NewSession(env_key) ==
    ScriptStart([api_key |-> env_key, current_api_key_hash |-> NoHash, data |-> <<>>])

InitWith(apps, env_keys) ==
    /\ app \in apps
    /\ \E env_key \in env_keys :
          /\ session_state = NewSession(env_key)
          /\ outreach_state = [email_generated |-> FALSE, generated_email |-> "",
                               api_key_input |-> env_key]
          /\ lead_state = LeadSidebar([api_key |-> "", count |-> 0,
                                       api_key_input |-> env_key],
                                      SetEnviron(env_key), env_key).st
          /\ environ = IF app = "stm" THEN SetEnviron(env_key)
                       ELSE SetEnviron(strip(env_key))
    /\ io = Shown("start", "", "none", NoKickoff)
    /\ peer = NoPeer

EnvKeys == {"", "k1"}
Init == InitWith({"stm", "outreach", "lead"}, EnvKeys)

(***************************************************************************)
(* A second session of an email program.  Streamlit keeps one               *)
(* st.session_state and one set of widget values per browser session; the   *)
(* module os and its environ belong to the server process and are the same  *)
(* object in every session's script run.                                    *)
(***************************************************************************)
\* Cold_Email.py line 35, ColdEmail.py line 29: the text the key field holds
\* in the first run of a session
FirstKeyField(env) ==
    IF app = "outreach" THEN env.GEMINI_API_KEY ELSE env.GOOGLE_API_KEY

\* the sidebar of the program the process runs, in a run of the second session
PeerSidebar(s, env) ==
    IF app = "outreach"
    THEN [s |-> s, environ |-> OutreachSidebar(env, s.api_key_input, TRUE).environ]
    ELSE LET side == LeadSidebar([api_key |-> s.api_key, count |-> 0,
                                  api_key_input |-> s.api_key_input], env, s.api_key_input)
         IN [s |-> [s EXCEPT !.api_key = side.st.api_key], environ |-> side.environ]

\* the first script run of the second session: the page is opened
PeerOpen ==
    /\ app \in {"outreach", "lead"}
    /\ ~peer.open
    /\ LET side == PeerSidebar([peer EXCEPT !.open = TRUE,
                                            !.api_key_input = FirstKeyField(environ)],
                               environ)
       IN /\ peer' = side.s
          /\ environ' = side.environ
    /\ UNCHANGED <<app, session_state, outreach_state, lead_state, io>>

\* the user of the second session types a key into the sidebar field
PeerSetKey(api_key_input) ==
    /\ app \in {"outreach", "lead"}
    /\ peer.open
    /\ api_key_input # peer.api_key_input
    /\ LET side == PeerSidebar([peer EXCEPT !.api_key_input = api_key_input,
                                            !.typed = <<api_key_input>>,
                                            !.kickoff = NoKickoff],
                               environ)
       IN /\ peer' = side.s
          /\ environ' = side.environ
    /\ UNCHANGED <<app, session_state, outreach_state, lead_state, io>>

\* the Generate Cold Email button in the second session
PeerGenerate(sender_name, target_company, target_url, llm_ok, result) ==
    /\ app \in {"outreach", "lead"}
    /\ peer.open
    /\ LET side == PeerSidebar(peer, environ)
           r == IF app = "outreach"
                THEN OutreachGenerateRun([email_generated |-> peer.email_generated,
                                          generated_email |-> peer.generated_email],
                                         environ, peer.api_key_input, sender_name,
                                         target_company, llm_ok, result)
                ELSE [st |-> [email_generated |-> peer.email_generated,
                              generated_email |-> peer.generated_email],
                      kickoff |-> LeadGenerateRun([api_key |-> side.s.api_key, count |-> 0,
                                                   api_key_input |-> peer.api_key_input],
                                                  peer.api_key_input, target_url, llm_ok,
                                                  result).kickoff]
       IN /\ peer' = [side.s EXCEPT !.email_generated = r.st.email_generated,
                                   !.generated_email = r.st.generated_email,
                                   !.kickoff = r.kickoff]
          /\ environ' = side.environ
    /\ UNCHANGED <<app, session_state, outreach_state, lead_state, io>>

(***************************************************************************)
(* Specifications.  Each is the program under one kind of use: the pages   *)
(* the user works on and the inputs the user and the executor supply.      *)
(***************************************************************************)
Radios == UNION {[0..(n - 1) -> AnswerChoices] : n \in 0..2}

\* the sidebar key field and the Subjects & Syllabus page
KeystoreKeys == {"", "k1", "k2"}
NextKeystore ==
    \/ \E k \in KeystoreKeys : SetApiKey(k)
    \/ \E n \in NameInputs, c \in SyllabusInputs : AddSubject(n, c)
    \/ \E i \in 0..MaxSubjects : RemoveSubject(i)

SpecKeystore == InitWith({"stm"}, EnvKeys) /\ [][NextKeystore]_vars

\* the Tests & Exams page, with one subject and one credential, in a
\* session started without a key in the environment
TestsKeys == {"", "k1"}
NextTests ==
    \/ \E k \in TestsKeys : SetApiKey(k)
    \/ AddSubject("Algebra", <<>>)
    \/ \E result \in TestResults :
          GenerateTest("Algebra", "Quick Test (5 questions)", TRUE, result)
    \/ \E radio \in Radios : SubmitTest(radio)

SpecTests == InitWith({"stm"}, {""}) /\ [][NextTests]_vars


\* the current test under the actions that could touch it: key switches,
\* adding and removing a subject, Generate Test and Submit Test
CurrentTestResults ==
    {Raised, Returned(<<"x">>, <<>>),
     Returned(<<"{", "Q", "}">>, <<QuestionA>>), Returned(<<"{", "Q", "}">>, <<QuestionB>>)}

NextCurrentTest ==
    \/ \E k \in TestsKeys : SetApiKey(k)
    \/ AddSubject("Algebra", <<>>)
    \/ RemoveSubject(0)
    \/ \E result \in CurrentTestResults :
          GenerateTest("Algebra", "Quick Test (5 questions)", TRUE, result)
    \/ \E a \in {"A", "B"} : SubmitTest([idx \in 0..0 |-> a])

SpecCurrentTest == InitWith({"stm"}, {""}) /\ [][NextCurrentTest]_vars

\* every handler that dispatches a pipeline, in the three programs, each
\* started without a key in the environment
DispatchKeys == {"", " ", "k1"}
NextDispatch ==
    \/ \E k \in DispatchKeys : SetApiKey(k)
    \/ AddSubject("Algebra", <<>>)
    \/ \E result \in TextResults({"plan1"}) : GenerateStudyRoutine(TRUE, result)
    \/ \E result \in {Raised, Returned(<<"{", "Q", "}">>, <<QuestionA>>)} :
          GenerateTest("Algebra", "Quick Test (5 questions)", TRUE, result)
    \/ SubmitTest([idx \in 0..0 |-> "A"])
    \/ \E result \in TextResults(Replies) : HomeworkMessage("p1", TRUE, result)
    \/ \E result \in TextResults(Replies) : DefinitionMessage("p1", TRUE, result)
    \/ \E k \in DispatchKeys, ok \in BOOLEAN : OutreachSetKey(k, ok)
    \/ \E n \in SenderNames, c \in Companies, ok \in BOOLEAN,
          result \in CrewResults(EmailStages, EmailTexts) : OutreachGenerate(n, c, ok, result)
    \/ GenerateAnother
    \/ \E k \in DispatchKeys : LeadSetKey(k)
    \/ \E u \in TargetUrls, ok \in BOOLEAN,
          result \in CrewResults(LeadStages, EmailTexts) : LeadGenerate(u, ok, result)
    \/ ClickMe

SpecDispatch == InitWith({"stm", "outreach", "lead"}, {""}) /\ [][NextDispatch]_vars



\* The keystore accessors called one at a time, from the state of line 72 in
\* the first run of a session (the fingerprint set, no key stored yet)
AccessorKeys == {"", "k1"}
StoredValues == {PyStr("v")}
\* the keys written in the runs of this specification: one of each default
WrittenKeys == {"subjects", "syllabus", "study_routine"}

\* the default ensure_user_data_exists passes for a key (lines 62-63)
EnsureDefaultOf(base_key) ==
    EnsureDefaults[CHOOSE i \in 1..Len(EnsureKeys) : EnsureKeys[i] = base_key]

\* get_user_data(base_key, default)
GetUserData(base_key, default) ==
    /\ app = "stm"
    /\ session_state' = get_user_data_effect(session_state, base_key, default)
    /\ io' = ShownText("get_user_data", base_key,
                       IF get_user_key(session_state, base_key) \in DOMAIN session_state.data
                       THEN "existing" ELSE "default stored",
                       get_user_data_effect(session_state, base_key, default)
                           .data[get_user_key(session_state, base_key)],
                       NoKickoff)
    /\ UNCHANGED <<app, environ, outreach_state, lead_state, peer>>

\* set_user_data(base_key, value)
SetUserData(base_key, value) ==
    /\ app = "stm"
    /\ session_state' = set_user_data(session_state, base_key, value)
    /\ io' = ShownText("set_user_data", base_key, "none", value, NoKickoff)
    /\ UNCHANGED <<app, environ, outreach_state, lead_state, peer>>

InitAccessors ==
    /\ app = "stm"
    /\ \E k \in AccessorKeys :
          /\ session_state = [api_key |-> k,
                              current_api_key_hash |->
                                  IF k = "" THEN NoHash ELSE get_api_key_hash(k),
                              data |-> <<>>]
          /\ environ = SetEnviron(k)
    /\ outreach_state = [email_generated |-> FALSE, generated_email |-> "",
                         api_key_input |-> ""]
    /\ lead_state = [api_key |-> "", count |-> 0, api_key_input |-> ""]
    /\ io = Shown("start", "", "none", NoKickoff)
    /\ peer = NoPeer

NextAccessors ==
    \/ \E b \in BaseKeys : \E d \in {PyNone, EnsureDefaultOf(b)} : GetUserData(b, d)
    \/ \E b \in WrittenKeys, v \in StoredValues : SetUserData(b, v)

SpecAccessors == InitAccessors /\ [][NextAccessors]_vars


\* The two chat pages
ChatKeys == {"", " ", "k1"}
ChatPrompts == {"p1", "p2"}

NextChat ==
    \/ \E k \in ChatKeys : SetApiKey(k)
    \/ \E prompt \in ChatPrompts, result \in TextResults(Replies) :
          HomeworkMessageWithin(MaxTranscript, prompt, TRUE, result)
    \/ \E result \in TextResults(Replies) \ {Raised} :
          DefinitionMessageWithin(MaxTranscript, "p1", TRUE, result)
    \/ ClearChat
    \/ ClearDefinitions

SpecChat == InitWith({"stm"}, {""}) /\ [][NextChat]_vars

\* Two sessions of an email program served by one process
SessionKeys == {"k1", "k2"}

NextSessions ==
    \/ \E k \in SessionKeys : OutreachSetKey(k, TRUE)
    \/ \E result \in CrewResults(EmailStages, {"email1"}) :
          OutreachGenerate("Ann", "Acme", TRUE, result)
    \/ GenerateAnother
    \/ \E k \in SessionKeys : LeadSetKey(k)
    \/ \E result \in CrewResults(LeadStages, {"email1"}) :
          LeadGenerate("https://openai.com/", TRUE, result)
    \/ PeerOpen
    \/ \E k \in SessionKeys : PeerSetKey(k)
    \/ \E result \in CrewResults(IF app = "outreach" THEN EmailStages ELSE LeadStages,
                                  {"email1"}) :
          PeerGenerate("Ann", "Acme", "https://openai.com/", TRUE, result)

SpecSessions == InitWith({"outreach", "lead"}, {""}) /\ [][NextSessions]_vars

\* The forms with required fields: the add-subject form and the Generate
\* buttons of the two email programs.
FieldsKeys == {"", "k1"}

NextFields ==
    \/ \E k \in FieldsKeys : SetApiKey(k)
    \/ \E n \in NameInputs, c \in SyllabusInputs : AddSubject(n, c)
    \/ \E k \in FieldsKeys, ok \in BOOLEAN : OutreachSetKey(k, ok)
    \/ \E n \in SenderNames, c \in Companies, ok \in BOOLEAN,
          result \in CrewResults(EmailStages, EmailTexts) : OutreachGenerate(n, c, ok, result)
    \/ GenerateAnother
    \/ \E k \in FieldsKeys : LeadSetKey(k)
    \/ \E u \in TargetUrls, ok \in BOOLEAN,
          result \in CrewResults(LeadStages, EmailTexts) : LeadGenerate(u, ok, result)
    \/ ClickMe

SpecFields == InitWith({"stm", "outreach", "lead"}, {""}) /\ [][NextFields]_vars


\* two credentials taking turns on the Subjects and Homework Help pages
SwitchKeys == {"k1", "k2"}
NextSwitch ==
    \/ \E k \in SwitchKeys : SetApiKey(k)
    \/ \E n \in {"Algebra", "Physics"} : AddSubject(n, <<"t1">>)
    \/ RemoveSubject(0)
    \/ \E result \in {r \in TextResults(Replies) : ~r.raised} :
          HomeworkMessage("p1", TRUE, result)
    \/ ClearChat

SpecSwitch == InitWith({"stm"}, EnvKeys) /\ [][NextSwitch]_vars

\* the complete program: every handler with every input of the model
Next ==
    \/ \E k \in KeyInputs : SetApiKey(k)
    \/ \E n \in NameInputs, c \in SyllabusInputs : AddSubject(n, c)
    \/ \E i \in 0..MaxSubjects : RemoveSubject(i)
    \/ \E ok \in BOOLEAN, result \in TextResults(RoutineTexts) : GenerateStudyRoutine(ok, result)
    \/ ClearRoutine
    \/ \E n \in NameInputs, ty \in TestTypes, ok \in BOOLEAN, result \in TestResults :
          GenerateTest(n, ty, ok, result)
    \/ \E radio \in Radios : SubmitTest(radio)
    \/ \E p \in Prompts, ok \in BOOLEAN, result \in TextResults(Replies) :
          HomeworkMessage(p, ok, result)
    \/ \E p \in Prompts, ok \in BOOLEAN, result \in TextResults(Replies) :
          DefinitionMessage(p, ok, result)
    \/ ClearChat
    \/ ClearDefinitions
    \/ \E k \in KeyInputs, ok \in BOOLEAN : OutreachSetKey(k, ok)
    \/ \E n \in SenderNames, c \in Companies, ok \in BOOLEAN,
          result \in CrewResults(EmailStages, EmailTexts) : OutreachGenerate(n, c, ok, result)
    \/ GenerateAnother
    \/ \E k \in KeyInputs : LeadSetKey(k)
    \/ \E u \in TargetUrls, ok \in BOOLEAN,
          result \in CrewResults(LeadStages, EmailTexts) : LeadGenerate(u, ok, result)
    \/ ClickMe
    \/ PeerOpen
    \/ \E k \in KeyInputs : PeerSetKey(k)
    \/ \E n \in SenderNames, c \in Companies, u \in TargetUrls, ok \in BOOLEAN,
          result \in CrewResults(IF app = "outreach" THEN EmailStages ELSE LeadStages,
                                  EmailTexts) :
          PeerGenerate(n, c, u, ok, result)

Spec == Init /\ [][Next]_vars

(***************************************************************************)
(* Properties of the keystore and of the Subjects & Syllabus page.         *)
(***************************************************************************)
\* the namespace of a credential: the prefix of its fingerprint, and the
\* un-prefixed keys when there is no credential
NamespaceOf(api_key) ==
    IF api_key = "" THEN "" ELSE UserPrefixOf(get_api_key_hash(api_key))

\* C1: set_user_data and get_user_data are isolated between credentials with
\* different fingerprints.  Under the active credential the accessors address
\* the keys of that credential's namespace and of no other, and the keys of
\* another credential's namespace are never written, created or deleted while
\* that credential is not the active one; so a value written under one
\* credential is never returned under another.
C1_Isolation ==
    /\ [](\A b \in BaseKeys :
              get_user_key(session_state, b) = <<NamespaceOf(session_state.api_key), b>>)
    /\ [][\A k \in DOMAIN session_state.data \cup DOMAIN session_state'.data :
              (k[1] # "" /\ k[1] # NamespaceOf(session_state'.api_key))
              => /\ k \in DOMAIN session_state.data
                 /\ k \in DOMAIN session_state'.data
                 /\ session_state'.data[k] = session_state.data[k]]_vars

\* "k2" is active and reads an empty subject list while the namespace of
\* "k1" holds a subject that was added under "k1"
C1_Witness ==
    /\ session_state.api_key = "k2"
    /\ <<NamespaceOf("k1"), "subjects">> \in DOMAIN session_state.data
    /\ Len(session_state.data[<<NamespaceOf("k1"), "subjects">>].v) > 0
    /\ get_user_data(session_state, "subjects") = PyList(<<>>)

\* C8: adding a subject whose name equals an existing subject's name of the
\* active namespace, ignoring case, is rejected: the stored data (subject list
\* and syllabus map included) is unchanged, the "already exists" error is
\* shown and no pipeline is dispatched.
C8_DuplicateRejected ==
    [][(/\ io'.event = "add_subject"
        /\ io'.input # ""
        /\ \E i \in 1..Len(get_user_data(session_state, "subjects").v) :
               lower(get_user_data(session_state, "subjects").v[i].name) = lower(io'.input))
       => /\ session_state'.data = session_state.data
          /\ io'.shown = "error: already exists"
          /\ io'.kickoff = NoKickoff]_vars

\* "algebra" was submitted while "Algebra" was in the list, and was rejected
C8_Witness ==
    /\ io.event = "add_subject"
    /\ io.input = "algebra"
    /\ io.shown = "error: already exists"
    /\ \E i \in 1..Len(get_user_data(session_state, "subjects").v) :
           get_user_data(session_state, "subjects").v[i].name = "Algebra"
    /\ \A i \in 1..Len(get_user_data(session_state, "subjects").v) :
           get_user_data(session_state, "subjects").v[i].name # "algebra"

\* C9: removing the subject at index i deletes exactly that element of the
\* list, the others keeping their order, and deletes the syllabus entry of
\* its name; the other syllabus entries are unchanged.
C9_RemoveSubject ==
    [][io'.event = "remove_subject" =>
          LET subjects == get_user_data(session_state, "subjects").v
              syllabus == get_user_data(session_state, "syllabus").v
              i == io'.input + 1
              subjects_after == get_user_data(session_state', "subjects").v
              syllabus_after == get_user_data(session_state', "syllabus").v
          IN /\ Len(subjects_after) = Len(subjects) - 1
             /\ \A j \in 1..Len(subjects_after) :
                    subjects_after[j] = IF j < i THEN subjects[j] ELSE subjects[j + 1]
             /\ DOMAIN syllabus_after = DOMAIN syllabus \ {subjects[i].name}
             /\ \A n \in DOMAIN syllabus_after : syllabus_after[n] = syllabus[n]]_vars

\* the first of two subjects was removed: the second is now the only one,
\* and its syllabus entry is the only one left
C9_Witness ==
    /\ io.event = "remove_subject"
    /\ io.input = 0
    /\ Len(get_user_data(session_state, "subjects").v) = 1
    /\ DOMAIN get_user_data(session_state, "syllabus").v =
           {get_user_data(session_state, "subjects").v[1].name}
    /\ get_user_data(session_state, "syllabus").v[
           get_user_data(session_state, "subjects").v[1].name] = <<"t1", "t2">>

(***************************************************************************)
(* Properties of the Tests & Exams page.                                   *)
(***************************************************************************)
\* C6: submitting the current test of n >= 1 questions with k of the
\* submitted answers equal to the questions' correct letters appends exactly
\* one result to the test history, with correct = k, total = n and
\* score = 100*k/n (score.num / score.den = 100*k / n); the earlier history
\* entries are unchanged; the current test is None and the answer scratchpad
\* is {} afterwards.
C6_SubmitScores ==
    [][(/\ io'.event = "submit_test"
        /\ Len(Legacy(session_state, "current_test").v.questions) >= 1)
       => LET questions == Legacy(session_state, "current_test").v.questions
              n == Len(questions)
              k == Cardinality({idx \in 0..(n - 1) :
                                   io'.input[idx] = questions[idx + 1].correct})
              history == Legacy(session_state, "test_history").v
              history_after == Legacy(session_state', "test_history").v
              last == history_after[Len(history_after)]
          IN /\ Len(history_after) = Len(history) + 1
             /\ SubSeq(history_after, 1, Len(history)) = history
             /\ last.correct = k
             /\ last.total = n
             /\ last.score.num * n = 100 * k * last.score.den
             /\ Legacy(session_state', "current_test") = PyNone
             /\ Legacy(session_state', "test_answers") = PyDict(EmptyDict)]_vars

\* a second result was appended for a test of two questions, one answered
\* correctly and one left unanswered
C6_Witness ==
    /\ io.event = "submit_test"
    /\ io.shown = "success: test completed"
    /\ DOMAIN io.input = 0..1
    /\ io.input[0] = "A"
    /\ io.input[1] = NoAnswer
    /\ Len(Legacy(session_state, "test_history").v) = 2
    /\ Legacy(session_state, "test_history").v[2].correct = 1
    /\ Legacy(session_state, "test_history").v[2].total = 2
    /\ Legacy(session_state, "current_test") = PyNone

\* the raw output, parsed as C7 says, is a JSON object with a "questions"
\* field: the text from the first "{" to the last "}" when a "}" follows a
\* "{", the whole raw output otherwise
C7_ParsesToTest(raw) ==
    \/ \E i \in 1..Len(raw), j \in 1..Len(raw) :
          /\ i < j
          /\ raw[i] = "{"
          /\ raw[j] = "}"
          /\ \A i2 \in 1..(i - 1) : raw[i2] # "{"
          /\ \A j2 \in (j + 1)..Len(raw) : raw[j2] # "}"
          /\ JsonLoads(SubSeq(raw, i, j)) = "object with questions"
    \/ /\ ~\E i \in 1..Len(raw), j \in 1..Len(raw) : i < j /\ raw[i] = "{" /\ raw[j] = "}"
       /\ JsonLoads(raw) = "object with questions"

\* C7 for one run of the Generate Test handler in which the pipeline
\* returned; scratchpad_after(n) is the scratchpad a new test of n questions
\* leaves
C7_Step(scratchpad_after(_)) ==
    (/\ io'.event = "generate_test"
     /\ io'.kickoff # NoKickoff
     /\ ~io'.kickoff[1].result.raised)
    => LET result == io'.kickoff[1].result
       IN IF C7_ParsesToTest(result.raw)
          THEN /\ Legacy(session_state', "current_test").t = "dict"
               /\ Legacy(session_state', "current_test").v.subject = io'.input
               /\ Legacy(session_state', "current_test").v.questions = result.questions
               /\ Legacy(session_state', "test_answers") =
                      PyDict(scratchpad_after(Len(result.questions)))
               /\ io'.shown = "success: test created"
          ELSE /\ Legacy(session_state', "current_test") = Legacy(session_state, "current_test")
               /\ Legacy(session_state', "test_answers") = Legacy(session_state, "test_answers")
               /\ io'.shown = "error: raw text"
               /\ io'.text = result.raw

C7_Empty(n) == EmptyDict
C7_NoneForEachQuestion(n) == [idx \in 0..(n - 1) |-> NoAnswer]

\* C7, as the code has it: the text from the first "{" to the last "}" of the
\* raw output is parsed, surrounding text ignored, and the whole raw output
\* when there is no such text; when parsing fails or the object has no
\* "questions" field the current test and the answer scratchpad keep their
\* values and the raw text is shown; on success, in the one run, the current
\* test is replaced and the scratchpad is reset: it holds no answer, and has
\* a None entry for each question of the new test, stored by the Take Test
\* form the same run draws.
C7_OutputHandling == [][C7_Step(C7_NoneForEachQuestion)]_vars

\* C7 as claimed: on success the scratchpad is empty after the step
C7_ScratchpadEmpty == [][C7_Step(C7_Empty)]_vars

\* a test was installed from an output with text around the JSON object
C7_Witness ==
    /\ io.event = "generate_test"
    /\ io.kickoff # NoKickoff
    /\ io.kickoff[1].result = Returned(<<"x", "{", "Q", "}", "x">>, <<QuestionA>>)
    /\ Legacy(session_state, "current_test").t = "dict"
    /\ Legacy(session_state, "current_test").v.questions = <<QuestionA>>
    /\ Legacy(session_state, "test_answers") = PyDict(C7_NoneForEachQuestion(1))

(***************************************************************************)
(* Properties of the pipeline dispatch.                                    *)
(***************************************************************************)
\* the last run called the executor and the call raised
KickoffRaised(x) == x.kickoff # NoKickoff /\ x.kickoff[1].result.raised

StmPipelines == {"study_routine", "test_generation", "homework_help", "definition_lookup"}

\* C2 as claimed: every subject, study routine, test, test result and chat
\* entry created while a credential is active is stored under that
\* credential's namespace: a run creates or changes only keys that carry the
\* prefix of the active credential.
C2_StoredInOwnNamespace ==
    [][\A k \in DOMAIN session_state'.data :
           (k \notin DOMAIN session_state.data \/ session_state'.data[k] # session_state.data[k])
           => k[1] = NamespaceOf(session_state'.api_key)]_vars

\* what the pages show when api_key is the active credential: the values of
\* its namespace (Subjects page, sidebar) and of the un-prefixed keys (the
\* other pages)
VisibleUnder(s, api_key) ==
    [b \in BaseKeys |-> <<s.data[<<NamespaceOf(api_key), b>>], s.data[<<"", b>>]>>]

\* C3 as claimed: after switching from a credential c to another credential
\* and back, the data visible under c is what it was before the switch: no
\* run made under another credential, and no switch between c and another
\* credential, changes what is visible under c.
C3_SwitchRestores ==
    [][\A c \in KeyInputs \ {""} :
           (/\ <<NamespaceOf(c), "subjects">> \in DOMAIN session_state.data
            /\ session_state.api_key # ""
            /\ session_state'.api_key # ""
            /\ ~(session_state.api_key = c /\ session_state'.api_key = c))
           => VisibleUnder(session_state', c) = VisibleUnder(session_state, c)]_vars

\* C4 as claimed: when the executor raises, the handler does not end with the
\* exception, an error message is shown, and the session state is what it was
\* before the run.
C4_ErrorHandled ==
    [][KickoffRaised(io')
       => /\ io'.shown = "error: generating email"
          /\ session_state' = session_state
          /\ outreach_state' = outreach_state
          /\ lead_state' = lead_state]_vars

\* C5: a run of the routine, test-generation, homework or definition pipeline
\* in which the executor raises leaves the study routine, the test history
\* and the subjects as they were, under the un-prefixed keys and in every
\* namespace.
C5_ErrorKeepsData ==
    [][(KickoffRaised(io') /\ io'.kickoff[1].pipeline \in StmPipelines)
       => \A p \in Prefixes, b \in {"study_routine", "test_history", "subjects"} :
              /\ <<p, b>> \in DOMAIN session_state'.data <=> <<p, b>> \in DOMAIN session_state.data
              /\ <<p, b>> \in DOMAIN session_state.data
                 => session_state'.data[<<p, b>>] = session_state.data[<<p, b>>]]_vars

\* the routine pipeline raised while a routine, a test result and a subject
\* were stored
C5_Witness ==
    /\ KickoffRaised(io)
    /\ io.kickoff[1].pipeline = "study_routine"
    /\ Legacy(session_state, "study_routine") = PyStr("plan1")
    /\ Len(Legacy(session_state, "test_history").v) = 1
    /\ Len(Legacy(session_state, "subjects").v) = 1

\* the credential the running program holds
Credential ==
    CASE app = "stm" -> session_state.api_key
      [] app = "outreach" -> outreach_state.api_key_input
      [] app = "lead" -> lead_state.api_key

\* C10 as claimed: when the credential is absent, empty or empty after
\* trimming, a dispatch handler does not call the executor and shows its
\* blocking message; the executor is only ever called with a credential that
\* is not empty after trimming.
C10_NoCallWithoutCredential ==
    /\ (/\ io.event \in {"generate_routine", "generate_test", "homework_message",
                         "definition_message", "generate_email"}
        /\ strip(Credential) = "")
       => /\ io.kickoff = NoKickoff
          /\ io.shown \in {"error: configure key", ConfigWarning, "error: enter key"}
    /\ \A i \in 1..Len(io.kickoff) : strip(io.kickoff[i].api_key) # ""

(***************************************************************************)
(* Properties of the credential switch and of the accessors.               *)
(***************************************************************************)
\* the default the keystore is to give a key: an empty list, an empty map,
\* or null
DefaultOf(base_key) ==
    CASE base_key \in {"subjects", "test_history", "homework_chat", "definitions_chat"}
             -> PyList(<<>>)
      [] base_key \in {"syllabus", "test_answers"} -> PyDict(EmptyDict)
      [] OTHER -> PyNone

\* C11: when the active credential is not empty, the eight known keys exist
\* under its namespace in every state a handler or page can read; the run
\* that changes the credential to a non-empty one gives each key that did not
\* exist its default (empty list, empty map or null) and leaves the value of
\* each key that existed.
C11_KeysExistAfterSwitch ==
    /\ [](session_state.api_key # ""
          => \A b \in BaseKeys :
                 <<NamespaceOf(session_state.api_key), b>> \in DOMAIN session_state.data)
    /\ [][(io'.event = "api_key" /\ io'.input # "")
          => \A b \in BaseKeys :
                 LET key == <<NamespaceOf(io'.input), b>>
                 IN /\ key \in DOMAIN session_state'.data
                    /\ session_state'.data[key] =
                           IF key \in DOMAIN session_state.data
                           THEN session_state.data[key]
                           ELSE DefaultOf(b)]_vars

\* the credential was changed back to "k1", whose namespace held a subject,
\* after "k2" had been active and had got its own keys
C11_Witness ==
    /\ io.event = "api_key"
    /\ io.input = "k1"
    /\ Len(session_state.data[<<NamespaceOf("k1"), "subjects">>].v) = 1
    /\ <<NamespaceOf("k2"), "current_test">> \in DOMAIN session_state.data
    /\ session_state.data[<<NamespaceOf("k2"), "current_test">>] = PyNone

\* ---------------------------------------------------------------------------
\* Stage order of the two email pipelines

EmailPipelineCall(x) == x.pipeline \in {"outreach", "lead_qualification"}

\* the number of stages in progress after the first k events of a dispatch
InProgress(events, k) ==
    Cardinality({i \in 1..k : events[i].event = "start"})
        - Cardinality({i \in 1..k : events[i].event # "start"})

\* C12: a dispatch of the outreach or the lead-qualification pipeline hands the
\* executor the stages research, strategy, write in this order; the stages are
\* started in this order, a stage is started only when the one before it has
\* returned, at no moment two stages are in progress, and the email that is
\* stored (outreach) or shown (lead qualification) is the output of the write
\* stage.
C12_StagesInOrder ==
    \A n \in 1..Len(io.kickoff) :
        LET call == io.kickoff[n]
            events == call.result.events
        IN EmailPipelineCall(call) =>
            /\ call.stages \in {<<"task_research", "task_strategize", "task_write">>,
                                <<"task_analyze", "task_strategize", "task_write">>}
            /\ Len(events) >= 1
            /\ \A i \in 1..Len(events) :
                   /\ events[i].stage = call.stages[(i + 1) \div 2]
                   /\ (i % 2 = 1) <=> (events[i].event = "start")
                   /\ (i % 2 = 1 /\ i > 1) => events[i - 1].event = "return"
                   /\ InProgress(events, i) \in {0, 1}
            /\ ~call.result.raised =>
                   /\ Len(events) = 2 * Len(call.stages)
                   /\ events[Len(events)].event = "return"
                   /\ events[Len(events)].stage = "task_write"
                   /\ io.shown = "email"
                   /\ call.pipeline = "outreach" =>
                          outreach_state.generated_email = events[Len(events)].output
                   /\ call.pipeline = "lead_qualification" =>
                          io.text = events[Len(events)].output
            /\ call.result.raised => events[Len(events)].event = "raise"

C12_Witness ==
    /\ app = "lead"
    /\ Len(io.kickoff) = 1
    /\ io.kickoff[1].pipeline = "lead_qualification"
    /\ ~io.kickoff[1].result.raised
    /\ Len(io.kickoff[1].result.events) = 6
    /\ io.text = "email1"

\* ---------------------------------------------------------------------------
\* Empty required fields

\* the run of x submitted a form whose required text field is empty
EmptyRequiredField(x) ==
    \/ app = "stm" /\ x.event = "add_subject" /\ x.input = ""
    \/ app = "outreach" /\ x.event = "generate_email" /\ (x.input[1] = "" \/ x.input[2] = "")
    \/ app = "lead" /\ x.event = "generate_email" /\ x.input[1] = ""

\* C13: a submission with an empty required field (add-subject with an empty
\* name, outreach with an empty sender name or target company, lead
\* qualification with an empty target URL) leaves the session state as it was
\* and makes no executor call.
C13_EmptyFieldNoEffect ==
    [][EmptyRequiredField(io')
       => /\ session_state' = session_state
          /\ outreach_state' = outreach_state
          /\ lead_state' = lead_state
          /\ io'.kickoff = NoKickoff]_vars

\* the outreach form was submitted with a credential, a company and no sender
\* name while an earlier email was stored
C13_Witness ==
    /\ app = "outreach"
    /\ io.event = "generate_email"
    /\ io.input = <<"", "Acme">>
    /\ outreach_state.api_key_input = "k1"
    /\ io.shown = "error: enter name"
    /\ outreach_state.generated_email = "email1"

\* ---------------------------------------------------------------------------
\* Two sessions of one server process

\* the text the user of the second session typed into the key field
PeerTyped == IF peer.typed = <<>> THEN "" ELSE peer.typed[1]

\* the text in the key field of the first session
KeyField ==
    IF app = "outreach" THEN outreach_state.api_key_input ELSE lead_state.api_key_input

\* C14: two sessions of one server process share no mutable resource.  The
\* key field of a session holds what the user of that session typed, and a
\* dispatch of a session runs with the credential entered in that session,
\* whatever the other session entered or dispatched in between (the process
\* environment variables GOOGLE_API_KEY and GEMINI_API_KEY included).
C14_SessionsIsolated ==
    /\ peer.open => peer.api_key_input = PeerTyped
    /\ \A n \in 1..Len(peer.kickoff) : peer.kickoff[n].api_key = strip(PeerTyped)
    /\ \A n \in 1..Len(io.kickoff) : io.kickoff[n].api_key = strip(KeyField)

\* C14, the dispatches alone
C14_DispatchOwnCredential ==
    /\ \A n \in 1..Len(peer.kickoff) : peer.kickoff[n].api_key = strip(PeerTyped)
    /\ \A n \in 1..Len(io.kickoff) : io.kickoff[n].api_key = strip(KeyField)

\* ---------------------------------------------------------------------------
\* The keystore accessors

\* the key a call addresses in the state s
AddressedKey(s, base_key) == <<NamespaceOf(s.api_key), base_key>>

\* C15: within the namespace of the credential (the anonymous namespace, the
\* un-prefixed keys, when there is none) set_user_data(key, v) stores v so
\* that get_user_data(key) returns v; get_user_data of a missing key stores
\* and returns the default (empty list for subjects, test_history,
\* homework_chat, definitions_chat; empty map for syllabus, test_answers; null
\* for the others); get_user_data of a key that exists returns its value and
\* changes nothing; every call returns, and no call changes another key.
C15_Accessors ==
    [][LET key == AddressedKey(session_state, io'.input)
           others == DOMAIN session_state.data \ {key}
       IN /\ io'.event = "set_user_data"
             => /\ DOMAIN session_state'.data = DOMAIN session_state.data \cup {key}
                /\ session_state'.data[key] = io'.text
                /\ get_user_data(session_state', io'.input) = io'.text
                /\ \A k \in others : session_state'.data[k] = session_state.data[k]
          /\ io'.event = "get_user_data"
             => /\ DOMAIN session_state'.data = DOMAIN session_state.data \cup {key}
                /\ io'.text = session_state'.data[key]
                /\ session_state'.data[key] =
                       IF key \in DOMAIN session_state.data
                       THEN session_state.data[key]
                       ELSE DefaultOf(io'.input)
                /\ \A k \in others : session_state'.data[k] = session_state.data[k]
          /\ io'.event \in {"set_user_data", "get_user_data"}
             => /\ session_state'.api_key = session_state.api_key
                /\ session_state'.current_api_key_hash = session_state.current_api_key_hash]_vars

\* with no credential the first get of syllabus stored and returned the empty
\* map under the un-prefixed key while a value was stored for subjects
C15_Witness ==
    /\ session_state.api_key = ""
    /\ io.event = "get_user_data"
    /\ io.input = "syllabus"
    /\ io.shown = "default stored"
    /\ io.text = PyDict(EmptyDict)
    /\ <<"", "subjects">> \in DOMAIN session_state.data
    /\ session_state.data[<<"", "subjects">>] = PyStr("v")
    /\ session_state.data[<<"", "syllabus">>] = PyDict(EmptyDict)

\* ---------------------------------------------------------------------------
\* The chat pages

\* the transcript a chat page draws and appends to
Transcript(s, chat_key) == Legacy(s, chat_key).v

IsPrefix(a, b) == Len(a) <= Len(b) /\ \A i \in 1..Len(a) : b[i] = a[i]

\* C16: a chat message leaves every existing entry of its transcript in place
\* and appends to it; Clear Chat and Clear Definitions empty their own
\* transcript; a message or Clear on one page leaves the other transcript as
\* it was, and no other action changes a transcript.
C16_TranscriptsAppendOnly ==
    [][LET h == Transcript(session_state, "homework_chat")
           d == Transcript(session_state, "definitions_chat")
           h2 == Transcript(session_state', "homework_chat")
           d2 == Transcript(session_state', "definitions_chat")
       IN CASE io'.event = "homework_message"
                   -> IsPrefix(h, h2) /\ Len(h2) > Len(h) /\ d2 = d
            [] io'.event = "definition_message"
                   -> IsPrefix(d, d2) /\ Len(d2) > Len(d) /\ h2 = h
            [] io'.event = "clear_chat" -> h2 = <<>> /\ d2 = d
            [] io'.event = "clear_definitions" -> d2 = <<>> /\ h2 = h
            [] OTHER -> h2 = h /\ d2 = d]_vars

\* a homework message was answered on a transcript that held an earlier
\* exchange, while the definitions transcript held one too
C16_Witness ==
    /\ io.event = "homework_message"
    /\ io.input = "p2"
    /\ Len(Transcript(session_state, "homework_chat")) = 4
    /\ Transcript(session_state, "homework_chat")[1] = Message("user", "p1")
    /\ Transcript(session_state, "homework_chat")[3] = Message("user", "p2")
    /\ Len(Transcript(session_state, "definitions_chat")) = 2

\* the transcript of the page whose chat input started the last run
TranscriptOfEvent ==
    Transcript(session_state,
               IF io.event = "homework_message" THEN "homework_chat" ELSE "definitions_chat")

DispatchEvents ==
    {"generate_routine", "generate_test", "homework_message", "definition_message",
     "generate_email"}

\* C18: the script run of one interaction calls the executor at most once, and
\* only when the interaction is a generate button or a chat message; a call
\* that raised is the only call of its run, and the run ends with the error
\* shown (or with the exception) instead of a second call.
C18_AtMostOneCall ==
    /\ Len(io.kickoff) <= 1
    /\ io.kickoff # NoKickoff => io.event \in DispatchEvents
    /\ KickoffRaised(io) => io.shown \in {"exception", "error: generating email"}

\* the outreach pipeline raised in its second stage
C18_Witness ==
    /\ app = "outreach"
    /\ io.event = "generate_email"
    /\ KickoffRaised(io)
    /\ Len(io.kickoff) = 1
    /\ Len(io.kickoff[1].result.events) = 4
    /\ io.shown = "error: generating email"

\* ---------------------------------------------------------------------------
\* The current test

\* C19 as claimed: a test that is installed as the current test stays the
\* current test, unchanged, under every action but Submit Test: a credential
\* switch, a change of the subjects or another Generate Test leaves it as it
\* is.
C19_CurrentTestKept ==
    [][(Truthy(Legacy(session_state, "current_test")) /\ io'.event # "submit_test")
       => Legacy(session_state', "current_test") = Legacy(session_state, "current_test")]_vars

\* C19 without the part on Generate Test: the current test is left as it is
\* by every action but Submit Test and a Generate Test whose output parses.
C19_KeptButForGenerate ==
    [][(/\ Truthy(Legacy(session_state, "current_test"))
        /\ io'.event # "submit_test"
        /\ ~(io'.event = "generate_test" /\ io'.shown = "success: test created"))
       => Legacy(session_state', "current_test") = Legacy(session_state, "current_test")]_vars

\* with a credential stored, a Generate Test whose output did not parse left
\* the current test, installed before, as it was
C19_Witness ==
    /\ io.event = "generate_test"
    /\ io.shown = "error: raw text"
    /\ session_state.api_key = "k1"
    /\ Truthy(Legacy(session_state, "current_test"))
    /\ Legacy(session_state, "current_test").v.questions = <<QuestionB>>

\* ---------------------------------------------------------------------------
\* Subjects and syllabus of a namespace

\* the subject list and the syllabus map stored under the prefix p; a key
\* that is not stored yet reads as its default
SubjectsUnder(p) ==
    IF <<p, "subjects">> \in DOMAIN session_state.data
    THEN session_state.data[<<p, "subjects">>].v ELSE <<>>
SyllabusUnder(p) ==
    IF <<p, "syllabus">> \in DOMAIN session_state.data
    THEN session_state.data[<<p, "syllabus">>].v ELSE EmptyDict

\* C20: in every namespace no two subjects of the list have names that are
\* equal ignoring letter case, and the names of the list are the keys of the
\* syllabus map; the Remove button of a listed subject never raises for a
\* missing syllabus key.
C20_SubjectsMatchSyllabus ==
    /\ \A p \in Prefixes :
           LET subjects == SubjectsUnder(p)
           IN /\ \A i, j \in 1..Len(subjects) :
                     i # j => lower(subjects[i].name) # lower(subjects[j].name)
              /\ {subjects[i].name : i \in 1..Len(subjects)} = DOMAIN SyllabusUnder(p)
    /\ io.event = "remove_subject" => io.shown # "exception"

\* a second subject was added under a credential: two subjects are listed,
\* each with its syllabus entry
C20_Witness ==
    /\ io.event = "add_subject"
    /\ io.shown = "success: added"
    /\ session_state.api_key = "k1"
    /\ Len(SubjectsUnder(NamespaceOf("k1"))) = 2
    /\ DOMAIN SyllabusUnder(NamespaceOf("k1")) = {"algebra", "Physics"}

\* ---------------------------------------------------------------------------
\* The recorded fingerprint

\* the fingerprint recorded in s is the one of the credential stored in s
FingerprintCurrent(s) ==
    s.current_api_key_hash =
        IF s.api_key = "" THEN NoHash ELSE get_api_key_hash(s.api_key)

\* C21: where the sidebar, a page or a handler reads or writes namespaced
\* data (between two runs, and in the next run once the script has passed
\* its initialisation), current_api_key_hash is the fingerprint of the stored
\* credential when that credential is not empty, and None when it is empty,
\* whatever keys were entered, changed and cleared before.
C21_FingerprintCurrent ==
    /\ FingerprintCurrent(session_state)
    /\ FingerprintCurrent(ScriptStart(session_state))
    /\ get_user_prefix(ScriptStart(session_state)) = NamespaceOf(session_state.api_key)

\* the credential was cleared after "k1" and "k2" had both been entered
C21_Witness ==
    /\ io.event = "api_key"
    /\ io.input = ""
    /\ session_state.api_key = ""
    /\ session_state.current_api_key_hash = NoHash
    /\ <<NamespaceOf("k1"), "subjects">> \in DOMAIN session_state.data
    /\ <<NamespaceOf("k2"), "subjects">> \in DOMAIN session_state.data

\* ---------------------------------------------------------------------------
\* The page gates of Study Routine and Tests & Exams

\* the subjects of the active namespace, as the Subjects page lists them
ActiveSubjects(s) == get_user_data(s, "subjects").v

\* C22 as claimed: the Study Routine and Tests pages are open exactly when
\* the active namespace holds a subject, the subjects they offer and write
\* into the prompts are the subjects of the active namespace, and a routine
\* dispatch carries exactly these subjects.
C22_PagesFollowNamespace ==
    LET s == ScriptStart(session_state)
        names == [i \in 1..Len(ActiveSubjects(s)) |-> ActiveSubjects(s)[i].name]
    IN app = "stm" =>
          /\ PageGateOpen(s) <=> ActiveSubjects(s) # <<>>
          /\ SubjectsInfo(s) = names
          /\ (io.event = "generate_routine" /\ io.kickoff # NoKickoff)
             => io.kickoff[1].description = names

\* ---------------------------------------------------------------------------
\* The questions of the current test

\* C23 as claimed: a test installed as the current test has at least one
\* question, and a Submit Test run completes: it does not end with the
\* exception of the score's division and it has appended its result.
C23_InstalledTestHasQuestions ==
    /\ Truthy(Legacy(session_state, "current_test"))
       => Len(Legacy(session_state, "current_test").v.questions) >= 1
    /\ io.event = "submit_test"
       => /\ io.shown = "success: test completed"
          /\ Len(Legacy(session_state, "test_history").v) >= 1

\* C23, the submission alone
C23_SubmitCompletes ==
    io.event = "submit_test" => io.shown = "success: test completed"

\* the flag and the text kept by the outreach page (lines 15-17)
StoredEmail == <<outreach_state.email_generated, outreach_state.generated_email>>

\* a run of the Generate Cold Email handler whose kickoff() returned
DispatchSucceeded(shown) ==
    /\ shown.event = "generate_email"
    /\ shown.kickoff # NoKickoff
    /\ ~shown.kickoff[1].result.raised

\* C24: in the outreach app the stored text is empty in every state where
\* email_generated is false; a run whose dispatch returned leaves the flag
\* true and the text equal to the output of the last stage of that dispatch;
\* Generate Another leaves the flag false and the text empty; every other run
\* (a dispatch that raised, a refused form, a key typed) changes neither, so
\* that a true flag always goes with the output of the most recent dispatch
\* that returned.
C24_StoredEmail ==
    /\ [](~outreach_state.email_generated => outreach_state.generated_email = "")
    /\ [][app = "outreach" =>
            IF DispatchSucceeded(io')
            THEN LET events == io'.kickoff[1].result.events
                 IN StoredEmail' = <<TRUE, events[Len(events)].output>>
            ELSE IF io'.event = "generate_another"
            THEN StoredEmail' = <<FALSE, "">>
            ELSE StoredEmail' = StoredEmail]_vars

\* a dispatch raised while the email of an earlier dispatch was stored, and
\* the email is still stored
C24_Witness ==
    /\ app = "outreach"
    /\ io.event = "generate_email"
    /\ io.kickoff # NoKickoff
    /\ io.kickoff[1].result.raised
    /\ StoredEmail = <<TRUE, "email2">>


=============================================================================
